---- MODULE Spec2Model ----
(***************************************************************************)
(* The "server" command of aginx (cmd/server.go): selection of the storage *)
(* backend from the cluster connection string, self-registration of the   *)
(* API behind a domain (exposeApi), and the registration and start of the *)
(* daemon's services.                                                      *)
(*                                                                         *)
(* Texts (connection strings, domains, addresses, selectors, directive     *)
(* arguments) are sequences of lexical symbols: a fixed literal of the     *)
(* source ("consul", "server_name", "127.0.0.1") is one symbol, punctuation *)
(* is one symbol per character, a percent escape is one symbol, and the    *)
(* rest of an input is one symbol per word.  The empty text is << >>.      *)
(***************************************************************************)
EXTENDS Integers, Sequences, FiniteSets, TLC

(***************************************************************************)
(* Bounds of the explored input space.                                     *)
(***************************************************************************)
\* longest expose domain, in characters
MaxDomainLen == 2
\* most directives directly under the http block of the stored tree
MaxBlocks == 2
\* longest path of a consul connection string after its leading '/', in symbols
MaxSegments == 2
\* most executions of the server command against one storage
MaxRuns == 2

(***************************************************************************)
(* Text helpers.                                                           *)
(***************************************************************************)
\* strings.HasPrefix(text, prefix)
HasPrefix(text, prefix) ==
    /\ Len(text) >= Len(prefix)
    /\ SubSeq(text, 1, Len(prefix)) = prefix

\* Go's slice expression text[n:]; out of range when n > len(text)
SliceFrom(text, n) == SubSeq(text, n + 1, Len(text))

\* strings.Index for a one-character needle: 0 when absent
IndexOf(text, sym) ==
    IF \E i \in 1..Len(text) : text[i] = sym
    THEN CHOOSE i \in 1..Len(text) :
            /\ text[i] = sym
            /\ \A j \in 1..(i - 1) : text[j] # sym
    ELSE 0

\* strings.LastIndex for a one-character needle: 0 when absent
LastIndexOf(text, sym) ==
    IF \E i \in 1..Len(text) : text[i] = sym
    THEN CHOOSE i \in 1..Len(text) :
            /\ text[i] = sym
            /\ \A j \in (i + 1)..Len(text) : text[j] # sym
    ELSE 0

Count(text, sym) == Cardinality({i \in 1..Len(text) : text[i] = sym})

(***************************************************************************)
(* net/url as clusterConfiguration uses it: Parse, EscapedPath, Query.     *)
(***************************************************************************)
\* symbols made of letters only
AlphaSyms == {"consul", "zk", "etcd", "redis", "h", "a", "b", "t", "x",
              "token", "aginx", "authtoken"}
\* symbols made of digits
PortSyms == {"8500", "2182", "1234"}
\* symbols made of digits and dots
DigitSyms == PortSyms \cup {"127.0.0.1"}
\* percent escapes and the character each one stands for
EscapeSyms == {"%20", "%2F"}
Unescaped(sym) ==
    CASE sym = "%20" -> " "
      [] sym = "%2F" -> "/"
      [] OTHER -> sym

\* url.unescape, applied symbol by symbol
Unescape(text) == [i \in 1..Len(text) |-> Unescaped(text[i])]

\* url.escape in encodePath mode: a space must be escaped, '/' must not
EscapePath(text) ==
    [i \in 1..Len(text) |-> IF text[i] = " " THEN "%20" ELSE text[i]]

\* url.validEncoded in encodePath mode
ValidEncoded(text) == \A i \in 1..Len(text) : text[i] # " "

\* url.getScheme: [scheme, rest, err].  Letters continue a scheme, digits and
\* dots do so after its first character, ':' ends it, anything else means
\* the text has no scheme.
GetScheme(raw) ==
    LET stops == {i \in 1..Len(raw) :
                    ~(raw[i] \in AlphaSyms \/ (raw[i] \in DigitSyms /\ i > 1))}
    IN  IF stops = {}
        THEN [scheme |-> << >>, rest |-> raw, err |-> FALSE]
        ELSE LET i == CHOOSE k \in stops : \A j \in stops : k <= j
             IN  IF raw[i] = ":"
                 THEN IF i = 1
                      THEN [scheme |-> << >>, rest |-> << >>, err |-> TRUE]
                      ELSE [scheme |-> SubSeq(raw, 1, i - 1),
                            rest |-> SliceFrom(raw, i), err |-> FALSE]
                 ELSE [scheme |-> << >>, rest |-> raw, err |-> FALSE]

\* url.validOptionalPort on the text after the host
ValidOptionalPort(port) ==
    \/ port = << >>
    \/ /\ port[1] = ":"
       /\ \A i \in 2..Len(port) : port[i] \in PortSyms

\* url.parseAuthority without user information: [host, err]
ParseAuthority(authority) ==
    LET i == LastIndexOf(authority, ":")
        port == IF i = 0 THEN << >> ELSE SubSeq(authority, i, Len(authority))
    IN  [host |-> authority, err |-> ~ValidOptionalPort(port)]

\* URL.setPath: the decoded path and the raw path kept when they differ
SetPath(p) ==
    LET path == Unescape(p)
    IN  [Path |-> path,
         RawPath |-> IF EscapePath(path) = p THEN << >> ELSE p]

EmptyURL ==
    [Scheme |-> << >>, Opaque |-> << >>, Host |-> << >>, Path |-> << >>,
     RawPath |-> << >>, RawQuery |-> << >>, err |-> FALSE]

\* url.Parse for a text without '#'
UrlParse(raw) ==
    LET s == GetScheme(raw)
        q == IndexOf(s.rest, "?")
        forceQuery == /\ q = Len(s.rest) /\ q > 0 /\ Count(s.rest, "?") = 1
        rest == IF q = 0 THEN s.rest ELSE SubSeq(s.rest, 1, q - 1)
        rawQuery == IF q = 0 \/ forceQuery THEN << >> ELSE SliceFrom(s.rest, q)
        slash == IndexOf(rest, "/")
        segment == IF slash = 0 THEN rest ELSE SubSeq(rest, 1, slash - 1)
    IN  IF s.err THEN [EmptyURL EXCEPT !.err = TRUE]
        ELSE IF ~HasPrefix(rest, <<"/">>) /\ s.scheme # << >>
        THEN [EmptyURL EXCEPT !.Scheme = s.scheme, !.Opaque = rest,
                              !.RawQuery = rawQuery]
        ELSE IF ~HasPrefix(rest, <<"/">>) /\ IndexOf(segment, ":") # 0
        THEN [EmptyURL EXCEPT !.err = TRUE]
        ELSE IF HasPrefix(rest, <<"/", "/">>)
                /\ (s.scheme # << >> \/ ~HasPrefix(rest, <<"/", "/", "/">>))
        THEN LET after == SliceFrom(rest, 2)
                 cut == IndexOf(after, "/")
                 authority == IF cut = 0 THEN after
                              ELSE SubSeq(after, 1, cut - 1)
                 tail == IF cut = 0 THEN << >> ELSE SliceFrom(after, cut - 1)
                 a == ParseAuthority(authority)
                 p == SetPath(tail)
             IN  [Scheme |-> s.scheme, Opaque |-> << >>, Host |-> a.host,
                  Path |-> p.Path, RawPath |-> p.RawPath,
                  RawQuery |-> rawQuery, err |-> a.err]
        ELSE LET p == SetPath(rest)
             IN  [Scheme |-> s.scheme, Opaque |-> << >>, Host |-> << >>,
                  Path |-> p.Path, RawPath |-> p.RawPath,
                  RawQuery |-> rawQuery, err |-> FALSE]

\* URL.EscapedPath
EscapedPath(u) ==
    IF /\ u.RawPath # << >>
       /\ ValidEncoded(u.RawPath)
       /\ Unescape(u.RawPath) = u.Path
    THEN u.RawPath
    ELSE EscapePath(u.Path)

\* the key=value pairs of a raw query, in order (url.parseQuery splits at '&')
RECURSIVE QueryPairs(_)
QueryPairs(rawQuery) ==
    IF rawQuery = << >> THEN << >>
    ELSE LET amp == IndexOf(rawQuery, "&")
             pair == IF amp = 0 THEN rawQuery ELSE SubSeq(rawQuery, 1, amp - 1)
             more == IF amp = 0 THEN << >> ELSE SliceFrom(rawQuery, amp)
             eq == IndexOf(pair, "=")
             key == IF eq = 0 THEN pair ELSE SubSeq(pair, 1, eq - 1)
             value == IF eq = 0 THEN << >> ELSE SliceFrom(pair, eq)
         IN  IF pair = << >> THEN QueryPairs(more)
             ELSE <<[key |-> Unescape(key), value |-> Unescape(value)]>>
                  \o QueryPairs(more)

\* URL.Query().Get(key): the first value of the key, empty when absent
QueryGet(u, key) ==
    LET pairs == QueryPairs(u.RawQuery)
        hits == {i \in 1..Len(pairs) : pairs[i].key = key}
    IN  IF hits = {} THEN << >>
        ELSE pairs[CHOOSE i \in hits : \A j \in hits : i <= j].value

(***************************************************************************)
(* Storage engines and backend selection.                                  *)
(***************************************************************************)
\* the nil storage.Engine interface value
NilEngine ==
    [kind |-> "nil", host |-> << >>, folder |-> << >>, token |-> << >>]

\* the engine fileStorage.System() returns
FileEngine ==
    [kind |-> "file", host |-> << >>, folder |-> << >>, token |-> << >>]

\* the engine consul.New(host, folder, token) returns
ConsulEngine(host, folder, token) ==
    [kind |-> "consul", host |-> host, folder |-> folder, token |-> token]

\* clusterConfiguration with the folder taken from the decoded Path instead
\* of EscapedPath()
clusterConfiguration_decodedPath(cluster, backendOk) ==
    IF cluster = << >>
    THEN [panic |-> ~backendOk, call |-> "fileStorage.System",
          engine |-> IF backendOk THEN FileEngine ELSE NilEngine]
    ELSE LET config == UrlParse(cluster)
         IN  IF config.err
             THEN [panic |-> TRUE, call |-> "url.Parse", engine |-> NilEngine]
             ELSE IF config.Scheme = <<"consul">>
             THEN IF Len(config.Path) < 1
                  THEN [panic |-> TRUE, call |-> "EscapedPath",
                        engine |-> NilEngine]
                  ELSE [panic |-> ~backendOk, call |-> "consul.New",
                        engine |-> IF backendOk
                                   THEN ConsulEngine(config.Host,
                                            SliceFrom(config.Path, 1),
                                            QueryGet(config, <<"token">>))
                                   ELSE NilEngine]
             ELSE [panic |-> FALSE, call |-> "none", engine |-> NilEngine]

\* clusterConfiguration from url.Parse's result on: the error check, the
\* switch on config.Scheme and the consul case.  A scheme other than
\* "consul" matches no case of the switch and leaves the named result
\* engine at nil.
BackendOf(config, backendOk) ==
    IF config.err
    THEN [panic |-> TRUE, call |-> "url.Parse", engine |-> NilEngine]
    ELSE IF config.Scheme = <<"consul">>
    THEN IF Len(EscapedPath(config)) < 1
         THEN \* EscapedPath()[1:] is out of range
              [panic |-> TRUE, call |-> "EscapedPath", engine |-> NilEngine]
         ELSE [panic |-> ~backendOk, call |-> "consul.New",
               engine |-> IF backendOk
                          THEN ConsulEngine(config.Host,
                                   SliceFrom(EscapedPath(config), 1),
                                   QueryGet(config, <<"token">>))
                          ELSE NilEngine]
    ELSE [panic |-> FALSE, call |-> "none", engine |-> NilEngine]

\* clusterConfiguration(cluster): the engine returned, or a panic.
\* backendOk says whether the backend's constructor (fileStorage.System,
\* consul.New) succeeds.
clusterConfiguration(cluster, backendOk) ==
    IF cluster = << >>
    THEN [panic |-> ~backendOk, call |-> "fileStorage.System",
          engine |-> IF backendOk THEN FileEngine ELSE NilEngine]
    ELSE BackendOf(UrlParse(cluster), backendOk)

\* engine.(Service): whether the engine's dynamic type has Start and Stop.
\* A clustered key-value backend has them, the local file engine has not,
\* and a nil interface value matches no type assertion.
IsService(engine) == engine.kind = "consul"

(***************************************************************************)
(* The directive tree.  A directive is [name, args, body]: args a sequence *)
(* of texts, body a sequence of directives.                                *)
(***************************************************************************)
\* configuration.NewDirective(name, args...)
NewDirective(name, args) == [name |-> name, args |-> args, body |-> << >>]

\* directive.AddBody(name, args...): a new child appended to the body
AddBody(d, name, args) ==
    [d EXCEPT !.body = Append(@, NewDirective(name, args))]

\* child.AddBody(name, args...) for the i-th child of d, which AddBody
\* returned by reference
AddBodyIn(d, i, name, args) ==
    [d EXCEPT !.body[i] = AddBody(@, name, args)]

\* the directive at an index path below root
RECURSIVE At(_, _)
At(root, path) ==
    IF path = << >> THEN root ELSE At(root.body[Head(path)], Tail(path))

\* root with a directive appended to the body of the directive at path
RECURSIVE AppendAt(_, _, _)
AppendAt(root, path, d) ==
    IF path = << >>
    THEN [root EXCEPT !.body = Append(@, d)]
    ELSE [root EXCEPT !.body[Head(path)] = AppendAt(@, Tail(path), d)]

(***************************************************************************)
(* The selector query engine: one query step is a text                     *)
(*     ('*' | name) [ '.' ] [ '[' expr ']' ]                               *)
(*     expr := term ('|' term)*      term := factor ('&' factor)*          *)
(*     factor := predicate | '(' expr ')'                                  *)
(*     predicate := name '(' arg (',' arg)* ')'     arg := 'text'          *)
(* The parser evaluates the expression against a candidate directive as    *)
(* it reads it; whether the text parses does not depend on the candidate.  *)
(***************************************************************************)
Punctuation == {".", "[", "]", "(", ")", "'", ",", "&", "|", " ", "*"}

IsName(sym) == sym \notin Punctuation /\ sym # "<end>"

\* the symbol at a position, "<end>" past the end of the text
Sym(text, pos) == IF pos >= 1 /\ pos <= Len(text) THEN text[pos] ELSE "<end>"

RECURSIVE SkipSpace(_, _)
SkipSpace(text, pos) ==
    IF Sym(text, pos) = " " THEN SkipSpace(text, pos + 1) ELSE pos

\* a quoted argument starting at pos: it ends at the next quote, no escape
\* of an embedded quote exists
ParseArg(text, pos) ==
    IF Sym(text, pos) # "'" \/ \A j \in (pos + 1)..Len(text) : text[j] # "'"
    THEN [ok |-> FALSE, pos |-> 0, lit |-> << >>]
    ELSE LET j == CHOOSE k \in (pos + 1)..Len(text) :
                    /\ text[k] = "'"
                    /\ \A m \in (pos + 1)..(k - 1) : text[m] # "'"
         IN  [ok |-> TRUE, pos |-> j + 1, lit |-> SubSeq(text, pos + 1, j - 1)]

NoArgs == [ok |-> FALSE, pos |-> 0, lits |-> << >>]

\* an argument in front of the arguments that follow it
ArgsCons(a, more) ==
    [ok |-> more.ok, pos |-> more.pos, lits |-> <<a.lit>> \o more.lits]

\* the arguments of a predicate, from the symbol after '(' to its ')'
RECURSIVE ParseArgs(_, _)
RECURSIVE ArgsAfter(_, _)
ParseArgs(text, pos) ==
    ArgsAfter(text, ParseArg(text, SkipSpace(text, pos)))

\* what follows the argument a: ')' ends the list, ',' continues it
ArgsAfter(text, a) ==
    IF ~a.ok THEN NoArgs
    ELSE IF Sym(text, SkipSpace(text, a.pos)) = ")"
    THEN [ok |-> TRUE, pos |-> SkipSpace(text, a.pos) + 1, lits |-> <<a.lit>>]
    ELSE IF Sym(text, SkipSpace(text, a.pos)) = ","
    THEN ArgsCons(a, ParseArgs(text, SkipSpace(text, a.pos) + 1))
    ELSE NoArgs

\* fnName(args...) is true of a directive that is itself such a call or has
\* an immediate child that is
PredicateHolds(d, fn, lits) ==
    \/ d.name = fn /\ d.args = lits
    \/ \E i \in 1..Len(d.body) : d.body[i].name = fn /\ d.body[i].args = lits

NoValue == [ok |-> FALSE, pos |-> 0, val |-> FALSE]

\* the predicate named fn with its parsed arguments
PredicateOf(d, fn, args) ==
    IF args.ok
    THEN [ok |-> TRUE, pos |-> args.pos,
          val |-> PredicateHolds(d, fn, args.lits)]
    ELSE NoValue

\* a predicate at a position that is not a space
ParsePredicate(text, pos, d) ==
    IF IsName(Sym(text, pos)) /\ Sym(text, pos + 1) = "("
    THEN PredicateOf(d, Sym(text, pos), ParseArgs(text, pos + 2))
    ELSE NoValue

\* a parenthesised expression e, which must be followed by ')'
Closed(text, e) ==
    IF e.ok /\ Sym(text, SkipSpace(text, e.pos)) = ")"
    THEN [ok |-> TRUE, pos |-> SkipSpace(text, e.pos) + 1, val |-> e.val]
    ELSE NoValue

And(f, r) == [ok |-> r.ok, pos |-> r.pos, val |-> f.val /\ r.val]

Or(t, r) == [ok |-> r.ok, pos |-> r.pos, val |-> t.val \/ r.val]

RECURSIVE ParseExpr(_, _, _)
RECURSIVE ParseTerm(_, _, _)
RECURSIVE ParseFactor(_, _, _)
RECURSIVE TermAfter(_, _, _)
RECURSIVE ExprAfter(_, _, _)

ParseFactor(text, pos, d) ==
    IF Sym(text, SkipSpace(text, pos)) = "("
    THEN Closed(text, ParseExpr(text, SkipSpace(text, pos) + 1, d))
    ELSE ParsePredicate(text, SkipSpace(text, pos), d)

\* '&' binds tighter than '|': a term is factor ('&' factor)*
ParseTerm(text, pos, d) == TermAfter(text, ParseFactor(text, pos, d), d)

\* what follows the factor f of a term
TermAfter(text, f, d) ==
    IF ~f.ok THEN NoValue
    ELSE IF Sym(text, SkipSpace(text, f.pos)) = "&"
    THEN And(f, ParseTerm(text, SkipSpace(text, f.pos) + 1, d))
    ELSE [ok |-> TRUE, pos |-> SkipSpace(text, f.pos), val |-> f.val]

\* an expression is term ('|' term)*
ParseExpr(text, pos, d) == ExprAfter(text, ParseTerm(text, pos, d), d)

\* what follows the term t of an expression
ExprAfter(text, t, d) ==
    IF ~t.ok THEN NoValue
    ELSE IF Sym(text, SkipSpace(text, t.pos)) = "|"
    THEN Or(t, ParseExpr(text, SkipSpace(text, t.pos) + 1, d))
    ELSE [ok |-> TRUE, pos |-> SkipSpace(text, t.pos), val |-> t.val]

\* the bracketed expression e of a step, which must end the step's text
Bracketed(text, named, e) ==
    IF /\ e.ok
       /\ Sym(text, SkipSpace(text, e.pos)) = "]"
       /\ SkipSpace(text, e.pos) = Len(text)
    THEN [ok |-> TRUE, val |-> named /\ e.val]
    ELSE [ok |-> FALSE, val |-> FALSE]

\* where the '[' of a step is: after the name, or after the name and a '.'
BracketAt(text) == IF Sym(text, 2) = "." THEN 3 ELSE 2

\* one query step read against a candidate: [ok, val]
ParseStep(text, d) ==
    IF ~(Sym(text, 1) = "*" \/ IsName(Sym(text, 1)))
    THEN [ok |-> FALSE, val |-> FALSE]
    ELSE IF Len(text) = 1
    THEN [ok |-> TRUE, val |-> Sym(text, 1) = "*" \/ Sym(text, 1) = d.name]
    ELSE IF Sym(text, BracketAt(text)) = "["
    THEN Bracketed(text, Sym(text, 1) = "*" \/ Sym(text, 1) = d.name,
                   ParseExpr(text, BracketAt(text) + 1, d))
    ELSE [ok |-> FALSE, val |-> FALSE]

\* whether a step is well-formed
StepParses(text) == ParseStep(text, NewDirective("", << >>)).ok

\* the paths among candidates whose directive a step matches, in order
RECURSIVE MatchPaths(_, _, _)
MatchPaths(root, candidates, step) ==
    IF candidates = << >> THEN << >>
    ELSE (IF ParseStep(step, At(root, Head(candidates))).val
          THEN <<Head(candidates)>> ELSE << >>)
         \o MatchPaths(root, Tail(candidates), step)

\* the paths of the children of the directives at the given paths, in order
RECURSIVE ChildPaths(_, _)
ChildPaths(root, paths) ==
    IF paths = << >> THEN << >>
    ELSE LET p == Head(paths)
         IN  [i \in 1..Len(At(root, p).body) |-> p \o <<i>>]
             \o ChildPaths(root, Tail(paths))

\* level by level: the children of the previous step's matches are the next
\* step's candidates
RECURSIVE Walk(_, _, _, _)
Walk(root, candidates, queries, k) ==
    LET matched == MatchPaths(root, candidates, queries[k])
    IN  IF k = Len(queries) THEN matched
        ELSE Walk(root, ChildPaths(root, matched), queries, k + 1)

\* client.Queries(steps...)
Queries(steps) == steps

\* Client.Select(queries...): the matches in document order, ParseError for
\* a malformed step, NotFound for no match
Select(root, queries) ==
    IF \E k \in 1..Len(queries) : ~StepParses(queries[k])
    THEN [err |-> "ParseError", paths |-> << >>]
    ELSE LET found == Walk(root, ChildPaths(root, << << >> >>), queries, 1)
         IN  IF found = << >> THEN [err |-> "NotFound", paths |-> << >>]
             ELSE [err |-> "nil", paths |-> found]

\* Client.Add(queries, directive): the directive appended under the first
\* match of the target; Select's error when the target is not found
Add(root, queries, d) ==
    LET target == Select(root, queries)
    IN  IF target.err # "nil" THEN [err |-> target.err, root |-> root]
        ELSE [err |-> "nil", root |-> AppendAt(root, target.paths[1], d)]

(***************************************************************************)
(* cmd/server.go                                                           *)
(***************************************************************************)
\* the persistent flags AddServerFlags defines, with their defaults
FlagKeys == {"api", "security", "cluster", "expose"}
DefaultFlags ==
    [api |-> <<":", "8011">>, security |-> << >>, cluster |-> << >>,
     expose |-> << >>]

\* strings.ToUpper(fmt.Sprintf("aginx_%s", key))
EnvKey(key) ==
    CASE key = "api" -> "AGINX_API"
      [] key = "security" -> "AGINX_SECURITY"
      [] key = "cluster" -> "AGINX_CLUSTER"
      [] key = "expose" -> "AGINX_EXPOSE"

NoEnv ==
    [k \in {EnvKey(key) : key \in FlagKeys} |-> << >>]

\* getString(cmd, key): the environment variable when it is set and not
\* empty, the flag otherwise
getString(environ, flagValues, key) ==
    IF environ[EnvKey(key)] # << >> THEN environ[EnvKey(key)]
    ELSE flagValues[key]

\* fmt.Sprintf("server.[server_name('%s') & listen('80')]", domain)
serverQuery(domain) ==
    <<"server", ".", "[", "server_name", "(", "'">> \o domain
    \o <<"'", ")", " ", "&", " ", "listen", "(", "'", "80", "'", ")", "]">>

NoSelection ==
    [queries |-> << >>, found |-> FALSE, path |-> << >>, errs |-> << >>]

\* selectDirective probing the block directly under http first
selectDirective_directFirst(root, domain) ==
    LET direct == Queries(<< <<"http">>, serverQuery(domain) >>)
        first == Select(root, direct)
        inInclude == Queries(<< <<"http">>, <<"include">>, <<"*">>,
                               serverQuery(domain) >>)
        second == Select(root, inInclude)
    IN  IF first.err = "nil"
        THEN [queries |-> direct, found |-> TRUE,
              path |-> first.paths[1], errs |-> <<first.err>>]
        ELSE IF second.err = "nil"
        THEN [queries |-> inInclude, found |-> TRUE,
              path |-> second.paths[1], errs |-> <<first.err, second.err>>]
        ELSE [queries |-> inInclude, found |-> FALSE,
              path |-> << >>, errs |-> <<first.err, second.err>>]

\* selectDirective(api, domain) on the client's tree: the queries of the
\* last probe made, and the first directive of the first probe without an
\* error.  errs records what each probe made returned.
selectDirective(root, domain) ==
    LET inInclude == Queries(<< <<"http">>, <<"include">>, <<"*">>,
                               serverQuery(domain) >>)
        first == Select(root, inInclude)
        direct == Queries(<< <<"http">>, serverQuery(domain) >>)
        second == Select(root, direct)
    IN  IF first.err = "nil"
        THEN [queries |-> inInclude, found |-> TRUE,
              path |-> first.paths[1], errs |-> <<first.err>>]
        ELSE IF second.err = "nil"
        THEN [queries |-> direct, found |-> TRUE,
              path |-> second.paths[1], errs |-> <<first.err, second.err>>]
        ELSE [queries |-> direct, found |-> FALSE,
              path |-> << >>, errs |-> <<first.err, second.err>>]

\* apiServer without the loopback address in front of a bare port
apiServer_noLoopback(domain, address) ==
    LET d0 == NewDirective("server", << >>)
        d1 == AddBody(d0, "listen", << <<"80">> >>)
        d2 == AddBody(d1, "server_name", <<domain>>)
        d3 == AddBody(d2, "location", << <<"/">> >>)
        location == Len(d3.body)
        l1 == AddBodyIn(d3, location, "proxy_redirect", << <<"default">> >>)
        l2 == AddBodyIn(l1, location, "proxy_pass",
                        << <<"http://">> \o address >>)
        l3 == AddBodyIn(l2, location, "proxy_set_header",
                        << <<"Host">>, <<"$host">> >>)
        l4 == AddBodyIn(l3, location, "proxy_set_header",
                        << <<"X-Real-IP">>, <<"$remote_addr">> >>)
        l5 == AddBodyIn(l4, location, "proxy_set_header",
                        << <<"X-Forwarded-For">>,
                           <<"$proxy_add_x_forwarded_for">> >>)
        l6 == AddBodyIn(l5, location, "client_max_body_size", << <<"10m">> >>)
        l7 == AddBodyIn(l6, location, "client_body_buffer_size",
                        << <<"128k">> >>)
        l8 == AddBodyIn(l7, location, "proxy_connect_timeout", << <<"90">> >>)
        l9 == AddBodyIn(l8, location, "proxy_send_timeout", << <<"90">> >>)
        l10 == AddBodyIn(l9, location, "proxy_read_timeout", << <<"90">> >>)
        l11 == AddBodyIn(l10, location, "proxy_buffers",
                         << <<"32">>, <<"4k">> >>)
    IN  l11

\* apiServer(domain, address)
apiServer(domain, address) ==
    LET d0 == NewDirective("server", << >>)
        d1 == AddBody(d0, "listen", << <<"80">> >>)
        d2 == AddBody(d1, "server_name", <<domain>>)
        addr == IF HasPrefix(address, <<":">>)
                THEN <<"127.0.0.1">> \o address ELSE address
        d3 == AddBody(d2, "location", << <<"/">> >>)
        location == Len(d3.body)
        l1 == AddBodyIn(d3, location, "proxy_redirect", << <<"default">> >>)
        l2 == AddBodyIn(l1, location, "proxy_pass", << <<"http://">> \o addr >>)
        l3 == AddBodyIn(l2, location, "proxy_set_header",
                        << <<"Host">>, <<"$host">> >>)
        l4 == AddBodyIn(l3, location, "proxy_set_header",
                        << <<"X-Real-IP">>, <<"$remote_addr">> >>)
        l5 == AddBodyIn(l4, location, "proxy_set_header",
                        << <<"X-Forwarded-For">>,
                           <<"$proxy_add_x_forwarded_for">> >>)
        l6 == AddBodyIn(l5, location, "client_max_body_size", << <<"10m">> >>)
        l7 == AddBodyIn(l6, location, "client_body_buffer_size",
                        << <<"128k">> >>)
        l8 == AddBodyIn(l7, location, "proxy_connect_timeout", << <<"90">> >>)
        l9 == AddBodyIn(l8, location, "proxy_send_timeout", << <<"90">> >>)
        l10 == AddBodyIn(l9, location, "proxy_read_timeout", << <<"90">> >>)
        l11 == AddBodyIn(l10, location, "proxy_buffers",
                         << <<"32">>, <<"4k">> >>)
    IN  l11

\* the connection strings the cluster flag's help text gives as examples
HelpExamples ==
    { <<"consul", ":", "/", "/", "127.0.0.1", ":", "8500", "/", "aginx",
        "?", "token", "=", "authtoken">>,
      <<"zk", ":", "/", "/", "127.0.0.1", ":", "2182", "/", "aginx">>,
      <<"etcd", ":", "/", "/", "127.0.0.1", ":", "1234", "/", "aginx">> }

(***************************************************************************)
(* Inputs: command lines, environments and stored configurations.          *)
(***************************************************************************)
\* all texts over an alphabet up to a length
TextsUpTo(alphabet, n) == UNION {[1..k -> alphabet] : k \in 0..n}

\* expose domains: a letter and the quote the selector syntax uses
Domains == TextsUpTo({"a", "'"}, MaxDomainLen)

\* API addresses: a bare port and a host with a port
Addresses == { <<":", "8011">>, <<"h", ":", "8011">> }

\* consul://host[:port]/path[?query]
ConsulHosts == { <<"h">>, <<"h", ":", "8500">> }
ConsulPaths ==
    {<<"/">> \o t : t \in TextsUpTo({"a", "/"} \cup EscapeSyms, MaxSegments)}
ConsulQueries ==
    { << >>,
      <<"?", "token", "=", "t">>,
      <<"?", "x", "=", "a">>,
      <<"?", "x", "=", "a", "&", "token", "=", "t", "%20", "&", "token", "=",
        "b">> }
ConsulStrings ==
    {<<"consul", ":", "/", "/">> \o h \o p \o q :
        h \in ConsulHosts, p \in ConsulPaths, q \in ConsulQueries}

\* texts without a scheme, with an unknown scheme, and malformed ones
OtherStrings ==
    { << >>,
      <<"/", "a">>,
      <<"a", "/", "b">>,
      <<"redis", ":", "/", "/", "h", "/", "a">>,
      <<":", "a">>,
      <<"consul", ":", "/", "/", "h">>,
      <<"consul", ":", "/", "/", "h", ":", "x", "/", "a">> }

Clusters == ConsulStrings \cup HelpExamples \cup OtherStrings

\* a server block for the domain "a" as a configuration file declares it
ServerBlock(port, tag) ==
    [name |-> "server", args |-> << >>,
     body |-> << NewDirective("listen", << <<port>> >>),
                 NewDirective("server_name", << <<"a">> >>),
                 NewDirective("root", << <<tag>> >>) >>]

\* an include directive holds one file directive per included file, which
\* holds the file's directives
Included(d) ==
    [name |-> "include", args |-> << <<"conf.d/*.conf">> >>,
     body |-> << [name |-> "file", args |-> << <<"conf.d/a.conf">> >>,
                  body |-> <<d>>] >>]

HttpItems ==
    { ServerBlock("80", "x"), ServerBlock("80", "y"),
      ServerBlock("443", "x"), Included(ServerBlock("80", "x")) }

\* a configuration: an events block, then the http block
Configuration(httpBody) ==
    [name |-> "", args |-> << >>,
     body |-> << NewDirective("events", << >>),
                 [name |-> "http", args |-> << >>, body |-> httpBody] >>]

\* a configuration without an http block
NoHttp ==
    [name |-> "", args |-> << >>,
     body |-> << NewDirective("events", << >>) >>]

Trees ==
    {NoHttp} \cup {Configuration(b) : b \in TextsUpTo(HttpItems, MaxBlocks)}

\* The explored inputs: every connection string with the API not exposed,
\* every domain, address and stored tree on the local file backend, and
\* settings that come from the environment.
Inputs ==
    {[flags |-> [DefaultFlags EXCEPT !.cluster = c], env |-> NoEnv,
      stored |-> Configuration(<< >>)] : c \in Clusters}
    \cup
    {[flags |-> [DefaultFlags EXCEPT !.expose = d, !.api = a], env |-> NoEnv,
      stored |-> t] : d \in Domains, a \in Addresses, t \in Trees}
    \cup
    {[flags |-> [DefaultFlags EXCEPT !.cluster = c],
      env |-> [NoEnv EXCEPT !["AGINX_EXPOSE"] = <<"a">>,
                            !["AGINX_CLUSTER"] = e],
      stored |-> Configuration(<< >>)] :
        c \in {<< >>, <<"/", "a">>}, e \in HelpExamples \cup {<< >>}}

(***************************************************************************)
(* State.                                                                  *)
(***************************************************************************)
VARIABLES
    flags,      \* the command line's persistent flags
    env,        \* the process environment
    stored,     \* the configuration the storage backend holds
    runs,       \* executions of the command so far, this one included
    pc,         \* where RunE is
    address,    \* RunE's address
    auth,       \* RunE's auth
    engine,     \* RunE's engine
    services,   \* the daemon's registered services, in order
    started,    \* the services daemon.Start has started
    doc,        \* the tree the Config Client holds
    selected,   \* what selectDirective returned
    built,      \* the directive apiServer returned
    calls,      \* the calls this execution has made, in order
    failure,    \* the call of this execution that returned an error or panicked
    exposedEarlier \* an earlier execution's exposeApi added and stored a block

vars ==
    <<flags, env, stored, runs, pc, address, auth, engine, services, started,
      doc, selected, built, calls, failure, exposedEarlier>>

NoDirective == NewDirective("", << >>)

Called(name) == \E i \in 1..Len(calls) : calls[i] = name

Init ==
    /\ \E in \in Inputs :
        /\ flags = in.flags
        /\ env = in.env
        /\ stored = in.stored
    /\ runs = 1
    /\ pc = "RunE"
    /\ address = << >>
    /\ auth = << >>
    /\ engine = NilEngine
    /\ services = << >>
    /\ started = {}
    /\ doc = NoDirective
    /\ selected = NoSelection
    /\ built = NoDirective
    /\ calls = << >>
    /\ failure = "none"
    /\ exposedEarlier = FALSE

(***************************************************************************)
(* ServerCmd.RunE, statement by statement.  PanicIfError(err) with an      *)
(* error, like a runtime panic, unwinds RunE: the deferred Catch prints    *)
(* the error and nothing after the panic runs (pc = "failed").             *)
(***************************************************************************)
\* address, auth := getString(...); daemon := NewDaemon()
RunEBegin ==
    /\ pc = "RunE"
    /\ address' = getString(env, flags, "api")
    /\ auth' = getString(env, flags, "security")
    /\ services' = << >>
    /\ calls' = <<"NewDaemon">>
    /\ pc' = "clusterConfiguration"
    /\ UNCHANGED <<flags, env, stored, runs, engine, started, doc, selected,
                   built, failure, exposedEarlier>>

\* engine := clusterConfiguration(getString(cmd, "cluster"))
ClusterConfigurationStep ==
    /\ pc = "clusterConfiguration"
    /\ \E backendOk \in BOOLEAN :
        \E r \in {clusterConfiguration(getString(env, flags, "cluster"),
                                       backendOk)} :
            /\ engine' = r.engine
            /\ calls' = calls \o <<"clusterConfiguration", r.call>>
            /\ failure' = IF r.panic THEN r.call ELSE "none"
            /\ pc' = IF r.panic THEN "failed" ELSE "register"
    /\ UNCHANGED <<flags, env, stored, runs, address, auth, services, started,
                   doc, selected, built, exposedEarlier>>

\* the engine registered whatever its type
RegisterEngine_always ==
    /\ pc = "register"
    /\ services' = IF engine.kind # "nil" THEN Append(services, "engine")
                   ELSE services
    /\ pc' = "exposeApi"
    /\ UNCHANGED <<flags, env, stored, runs, address, auth, engine, started,
                   doc, selected, built, calls, failure, exposedEarlier>>

\* if service, matched := engine.(Service); matched { daemon.Add(service) }
RegisterEngine ==
    /\ pc = "register"
    /\ services' = IF IsService(engine) THEN Append(services, "engine")
                   ELSE services
    /\ pc' = "exposeApi"
    /\ UNCHANGED <<flags, env, stored, runs, address, auth, engine, started,
                   doc, selected, built, calls, failure, exposedEarlier>>

\* exposeApi up to client.NewClient(engine), which loads the stored
\* configuration; a nil engine cannot be loaded from
ExposeApiEnter ==
    /\ pc = "exposeApi"
    /\ LET domain == getString(env, flags, "expose")
       IN  IF domain = << >>
           THEN /\ calls' = Append(calls, "exposeApi")
                /\ pc' = "NewManager"
                /\ doc' = doc
                /\ failure' = failure
           ELSE \E ok \in BOOLEAN :
                /\ calls' = calls \o <<"exposeApi", "client.NewClient">>
                /\ IF engine.kind # "nil" /\ ok
                   THEN /\ doc' = stored
                        /\ pc' = "selectDirective"
                        /\ failure' = failure
                   ELSE /\ doc' = doc
                        /\ pc' = "failed"
                        /\ failure' = "client.NewClient"
    /\ UNCHANGED <<flags, env, stored, runs, address, auth, engine, services,
                   started, selected, built, exposedEarlier>>

\* only NotFound taken for "no such block": any other error of a probe
\* reported as a failure
SelectDirectiveStep_notFoundOnly ==
    /\ pc = "selectDirective"
    /\ selected' = selectDirective(doc, getString(env, flags, "expose"))
    /\ calls' = Append(calls, "selectDirective")
    /\ IF \E i \in 1..Len(selected'.errs) :
            selected'.errs[i] \notin {"nil", "NotFound"}
       THEN pc' = "failed" /\ failure' = "selectDirective"
       ELSE /\ pc' = IF selected'.found THEN "NewManager" ELSE "Add"
            /\ failure' = failure
    /\ UNCHANGED <<flags, env, stored, runs, address, auth, engine, services,
                   started, doc, built, exposedEarlier>>

\* _, directive := selectDirective(api, domain); if directive == nil { ... }
SelectDirectiveStep ==
    /\ pc = "selectDirective"
    /\ selected' = selectDirective(doc, getString(env, flags, "expose"))
    /\ calls' = Append(calls, "selectDirective")
    /\ pc' = IF selected'.found THEN "NewManager" ELSE "Add"
    /\ UNCHANGED <<flags, env, stored, runs, address, auth, engine, services,
                   started, doc, built, failure, exposedEarlier>>

\* apiServer := apiServer(domain, address); err = api.Add(Queries("http"),
\* apiServer); PanicIfError(err).  Add persists the tree it changed.
AddStep ==
    /\ pc = "Add"
    /\ built' = apiServer(getString(env, flags, "expose"),
                          getString(env, flags, "api"))
    /\ calls' = calls \o <<"apiServer", "api.Add">>
    /\ \E ok \in BOOLEAN :
        LET r == Add(doc, Queries(<< <<"http">> >>), built')
        IN  IF r.err = "nil" /\ ok
            THEN /\ doc' = r.root
                 /\ stored' = r.root
                 /\ pc' = "StoreConfiguration"
                 /\ failure' = failure
            ELSE /\ doc' = doc
                 /\ stored' = stored
                 /\ pc' = "failed"
                 /\ failure' = "api.Add"
    /\ UNCHANGED <<flags, env, runs, address, auth, engine, services, started,
                   selected, exposedEarlier>>

\* err = engine.StoreConfiguration(api.Configuration()); PanicIfError(err)
StoreStep ==
    /\ pc = "StoreConfiguration"
    /\ calls' = Append(calls, "engine.StoreConfiguration")
    /\ \E ok \in BOOLEAN :
        IF ok
        THEN /\ stored' = doc
             /\ pc' = "NewManager"
             /\ failure' = failure
        ELSE /\ stored' = stored
             /\ pc' = "failed"
             /\ failure' = "engine.StoreConfiguration"
    /\ UNCHANGED <<flags, env, runs, address, auth, engine, services, started,
                   doc, selected, built, exposedEarlier>>

\* lego.NewManager's error not checked
NewManagerStep_ignoresError ==
    /\ pc = "NewManager"
    /\ calls' = Append(calls, "lego.NewManager")
    /\ \E ok \in BOOLEAN :
        /\ pc' = "Start"
        /\ failure' = IF ok THEN failure ELSE "lego.NewManager"
    /\ UNCHANGED <<flags, env, stored, runs, address, auth, engine, services,
                   started, doc, selected, built, exposedEarlier>>

\* manager, err := lego.NewManager(engine); PanicIfError(err)
NewManagerStep ==
    /\ pc = "NewManager"
    /\ calls' = Append(calls, "lego.NewManager")
    /\ \E ok \in BOOLEAN :
        /\ pc' = IF ok THEN "Start" ELSE "failed"
        /\ failure' = IF ok THEN failure ELSE "lego.NewManager"
    /\ UNCHANGED <<flags, env, stored, runs, address, auth, engine, services,
                   started, doc, selected, built, exposedEarlier>>

\* return daemon.Add(http, svr, manager).Start(): Start launches every
\* registered service
StartStep ==
    /\ pc = "Start"
    /\ services' = services \o <<"http", "svr", "manager">>
    /\ started' = {services'[i] : i \in 1..Len(services')}
    /\ calls' = Append(calls, "daemon.Start")
    /\ pc' = "running"
    /\ UNCHANGED <<flags, env, stored, runs, address, auth, engine, doc,
                   selected, built, failure, exposedEarlier>>

\* the process ends and the command is run again with the same command
\* line and environment against the same storage
Relaunch ==
    /\ pc \in {"running", "failed"}
    /\ runs < MaxRuns
    /\ runs' = runs + 1
    /\ exposedEarlier' =
        (exposedEarlier
         \/ (Called("engine.StoreConfiguration")
             /\ failure # "engine.StoreConfiguration"))
    /\ pc' = "RunE"
    /\ address' = << >>
    /\ auth' = << >>
    /\ engine' = NilEngine
    /\ services' = << >>
    /\ started' = {}
    /\ doc' = NoDirective
    /\ selected' = NoSelection
    /\ built' = NoDirective
    /\ calls' = << >>
    /\ failure' = "none"
    /\ UNCHANGED <<flags, env, stored>>

Next ==
    \/ RunEBegin
    \/ ClusterConfigurationStep
    \/ RegisterEngine
    \/ ExposeApiEnter
    \/ SelectDirectiveStep
    \/ AddStep
    \/ StoreStep
    \/ NewManagerStep
    \/ StartStep
    \/ Relaunch

Spec == Init /\ [][Next]_vars

(***************************************************************************)
(* Properties.                                                             *)
(***************************************************************************)
\* the cluster connection string and the expose domain of this execution
Cluster == getString(env, flags, "cluster")
Domain == getString(env, flags, "expose")

\* clusterConfiguration has returned or panicked in this execution
ClusterResolved == Called("clusterConfiguration")

\* the schemes the connection-string format names
DocumentedSchemes == { <<"consul">>, <<"zk">>, <<"etcd">> }

\* C1: a non-empty connection string whose scheme is not a recognized one
\* makes start-up fail during backend selection: once clusterConfiguration
\* is over the execution has failed, no service is registered or started,
\* and exposeApi, lego.NewManager and daemon.Start are never called.
C1_UnknownSchemeFailsFast ==
    ( /\ ClusterResolved
      /\ Cluster # << >>
      /\ ~UrlParse(Cluster).err
      /\ UrlParse(Cluster).Scheme # << >>
      /\ UrlParse(Cluster).Scheme \notin DocumentedSchemes )
    => /\ pc = "failed"
       /\ services = << >>
       /\ started = {}
       /\ ~Called("exposeApi")
       /\ ~Called("lego.NewManager")
       /\ ~Called("daemon.Start")

\* C2: for every connection string whose scheme component is empty, the
\* empty string and a bare path alike, clusterConfiguration returns the
\* local file engine (unless the file engine's constructor fails).
C2_EmptySchemeIsFile ==
    ( /\ ClusterResolved
      /\ ~UrlParse(Cluster).err
      /\ UrlParse(Cluster).Scheme = << >>
      /\ failure # "fileStorage.System" )
    => engine = FileEngine

\* C3: for each connection string the cluster flag's help text gives,
\* clusterConfiguration returns an engine of the backend its scheme names
\* (unless that backend's constructor fails).
C3_DocumentedSchemesRecognized ==
    (ClusterResolved /\ Cluster \in HelpExamples /\ pc # "failed")
    => engine.kind = UrlParse(Cluster).Scheme[1]

\* the value of the token parameter of each query of ConsulQueries
TokenOf(q) ==
    IF q = <<"?", "token", "=", "t">> THEN <<"t">>
    ELSE IF q = <<"?", "x", "=", "a", "&", "token", "=", "t", "%20", "&",
                  "token", "=", "b">>
    THEN <<"t", " ">>
    ELSE << >>

\* C8: for consul://host[:port]/path[?token=value] the consul backend is
\* constructed with the host including its port, with the path as the
\* connection string writes it less its leading '/', and with the value of
\* the token parameter, empty when there is none; also for the path "/".
\* Stated of the state clusterConfiguration leaves.
C8_ConsulArguments ==
    (pc \in {"register", "failed"} /\ ClusterResolved)
    => /\ \A h \in ConsulHosts, p \in ConsulPaths, q \in ConsulQueries :
            Cluster = <<"consul", ":", "/", "/">> \o h \o p \o q
            => /\ Called("consul.New")
               /\ pc # "failed" => engine = ConsulEngine(h, SliceFrom(p, 1),
                                                         TokenOf(q))
       /\ ( /\ pc # "failed"
            /\ Cluster = <<"consul", ":", "/", "/", "127.0.0.1", ":", "8500",
                           "/", "aginx", "?", "token", "=", "authtoken">> )
          => engine = ConsulEngine(<<"127.0.0.1", ":", "8500">>, <<"aginx">>,
                                   <<"authtoken">>)

\* a consul engine built from a path that is only "/", with a token
C8_Witness ==
    /\ pc = "register"
    /\ engine.kind = "consul"
    /\ engine.folder = << >>
    /\ engine.host = <<"h", ":", "8500">>
    /\ engine.token = <<"t">>

\* a directive without a body
Statement(name, args) == [name |-> name, args |-> args, body |-> << >>]

\* the address proxy_pass names: 127.0.0.1 in front of a bare port
Upstream(addr) ==
    IF addr # << >> /\ addr[1] = ":" THEN <<"127.0.0.1">> \o addr ELSE addr

\* the API-exposure server block, written out
ExposureBlock(domain, addr) ==
    [name |-> "server", args |-> << >>,
     body |-> <<
        Statement("listen", << <<"80">> >>),
        Statement("server_name", <<domain>>),
        [name |-> "location", args |-> << <<"/">> >>,
         body |-> <<
            Statement("proxy_redirect", << <<"default">> >>),
            Statement("proxy_pass", << <<"http://">> \o Upstream(addr) >>),
            Statement("proxy_set_header", << <<"Host">>, <<"$host">> >>),
            Statement("proxy_set_header",
                      << <<"X-Real-IP">>, <<"$remote_addr">> >>),
            Statement("proxy_set_header",
                      << <<"X-Forwarded-For">>,
                         <<"$proxy_add_x_forwarded_for">> >>),
            Statement("client_max_body_size", << <<"10m">> >>),
            Statement("client_body_buffer_size", << <<"128k">> >>),
            Statement("proxy_connect_timeout", << <<"90">> >>),
            Statement("proxy_send_timeout", << <<"90">> >>),
            Statement("proxy_read_timeout", << <<"90">> >>),
            Statement("proxy_buffers", << <<"32">>, <<"4k">> >>) >>] >>]

\* C4: apiServer(domain, address) is exactly the server block with listen
\* 80, server_name <domain> and one location / holding the eleven proxy
\* settings in order, proxy_pass naming http://<address> with 127.0.0.1 put
\* in front of an address that begins with ':'; for the block exposeApi
\* builds and, where an execution begins, for every domain and address.
C4_ApiServerTree ==
    /\ Called("apiServer")
       => built = ExposureBlock(Domain, getString(env, flags, "api"))
    /\ pc = "RunE"
       => \A d \in Domains, a \in Addresses :
            apiServer(d, a) = ExposureBlock(d, a)

\* exposeApi has built the block for an address that is a bare port
C4_Witness ==
    /\ Called("apiServer")
    /\ getString(env, flags, "api") = <<":", "8011">>
    /\ built.body[3].body[2] =
        Statement("proxy_pass", << <<"http://", "127.0.0.1", ":", "8011">> >>)

\* C5: when daemon.Start is invoked the registered services are the HTTP
\* listener, the supervisor and the certificate manager, each once, plus
\* the storage engine exactly when it has the Service capability, and never
\* with the local file engine; Start starts exactly the registered ones.
C5_ServicesAtStart ==
    Called("daemon.Start")
    => /\ {services[i] : i \in 1..Len(services)} =
            {"http", "svr", "manager"}
            \cup (IF IsService(engine) THEN {"engine"} ELSE {})
       /\ Len(services) = Cardinality({services[i] : i \in 1..Len(services)})
       /\ engine = FileEngine => \A i \in 1..Len(services) :
                                    services[i] # "engine"
       /\ started = {services[i] : i \in 1..Len(services)}

\* Start invoked with a consul engine registered beside the three services
C5_Witness ==
    /\ pc = "running"
    /\ engine.kind = "consul"
    /\ services = <<"engine", "http", "svr", "manager">>

\* the start-up steps that can fail with a backend error
StartupSteps ==
    {"fileStorage.System", "url.Parse", "EscapedPath", "consul.New",
     "client.NewClient", "api.Add", "engine.StoreConfiguration",
     "lego.NewManager"}

\* C6: once a start-up step has failed (engine construction, the client's
\* creation with its initial load, the self-registration Add,
\* StoreConfiguration, the certificate manager's construction) the
\* execution is over: daemon.Start is not invoked, no service is started,
\* and the failed call is the last one made.
C6_FailureAbortsBoot ==
    /\ failure \in StartupSteps \cup {"none"}
    /\ failure # "none"
       => /\ pc = "failed"
          /\ ~Called("daemon.Start")
          /\ started = {}
          /\ calls[Len(calls)] = failure
    /\ pc = "failed" => failure # "none"

\* the self-registration's StoreConfiguration failed after a successful Add
C6_Witness ==
    /\ failure = "engine.StoreConfiguration"
    /\ pc = "failed"
    /\ Called("api.Add")
    /\ engine = FileEngine

\* a server block that declares server_name <domain> and listen 80
IsExposedServer(d, domain) ==
    /\ d.name = "server"
    /\ \E i \in 1..Len(d.body) :
        d.body[i].name = "server_name" /\ d.body[i].args = <<domain>>
    /\ \E i \in 1..Len(d.body) :
        d.body[i].name = "listen" /\ d.body[i].args = << <<"80">> >>

\* the indexes of the children of a directive, all or of one name
Children(d) == 1..Len(d.body)
ChildrenNamed(d, name) == {i \in Children(d) : d.body[i].name = name}

\* the paths of such blocks directly under an http block
DirectPaths(root, domain) ==
    UNION {{<<i, j>> : j \in {m \in Children(root.body[i]) :
                                IsExposedServer(At(root, <<i, m>>), domain)}} :
           i \in ChildrenNamed(root, "http")}

\* the paths of such blocks in a file of an include under an http block
IncludedPaths(root, domain) ==
    UNION {UNION {UNION {
        {<<i, j, k, l>> : l \in {m \in Children(At(root, <<i, j, k>>)) :
                            IsExposedServer(At(root, <<i, j, k, m>>), domain)}} :
        k \in Children(At(root, <<i, j>>))} :
        j \in ChildrenNamed(root.body[i], "include")} :
        i \in ChildrenNamed(root, "http")}

\* document order of two paths of one length
Before(p, q) ==
    \E n \in 1..Len(p) : p[n] < q[n] /\ \A m \in 1..(n - 1) : p[m] = q[m]

FirstPath(paths) == CHOOSE p \in paths : \A q \in paths \ {p} : Before(p, q)

\* the two probes of selectDirective
IncludeProbe(domain) ==
    << <<"http">>, <<"include">>, <<"*">>, serverQuery(domain) >>
DirectProbe(domain) == << <<"http">>, serverQuery(domain) >>

\* selectDirective has returned and the tree is still the one it searched
SelectionMade == Called("selectDirective") /\ ~Called("api.Add")

\* C7: selectDirective probes http/include/*/server[server_name & listen 80]
\* first and the block directly under http only when that Select fails; it
\* returns the first directive, in document order, of the first probe that
\* succeeds, with that probe's queries, and no directive when both fail.
C7_ProbeOrder ==
    SelectionMade
    => LET first == Select(doc, IncludeProbe(Domain))
           second == Select(doc, DirectProbe(Domain))
           included == IncludedPaths(doc, Domain)
           direct == DirectPaths(doc, Domain)
       IN  /\ first.err = "nil"
              => selected = [queries |-> IncludeProbe(Domain), found |-> TRUE,
                             path |-> first.paths[1], errs |-> <<"nil">>]
           /\ first.err # "nil" /\ second.err = "nil"
              => selected = [queries |-> DirectProbe(Domain), found |-> TRUE,
                             path |-> second.paths[1],
                             errs |-> <<first.err, "nil">>]
           /\ first.err # "nil" /\ second.err # "nil"
              => /\ ~selected.found
                 /\ selected.errs = <<first.err, second.err>>
           /\ StepParses(serverQuery(Domain))
              => IF included # {}
                 THEN selected.found /\ selected.path = FirstPath(included)
                 ELSE IF direct # {}
                 THEN selected.found /\ selected.path = FirstPath(direct)
                 ELSE ~selected.found

\* the first probe found nothing and the second found two blocks, of which
\* the first in the document was returned
C7_Witness ==
    /\ SelectionMade
    /\ selected.found
    /\ selected.errs = <<"NotFound", "nil">>
    /\ DirectPaths(doc, Domain) = {<<2, 1>>, <<2, 2>>}
    /\ selected.path = <<2, 1>>

\* the blocks for a domain a tree holds at the places selectDirective probes
ExposedPaths(root, domain) ==
    DirectPaths(root, domain) \cup IncludedPaths(root, domain)

\* C9: exposeApi adds and stores nothing when the expose domain is empty or
\* the tree already holds a port-80 server block for the domain directly
\* under http or inside an include; and after one execution whose exposeApi
\* added and stored the block, later executions with the same domain add
\* and store nothing and leave exactly one such block.
C9_SelfRegistrationIdempotent ==
    /\ Domain = << >>
       => ~Called("api.Add") /\ ~Called("engine.StoreConfiguration")
    /\ SelectionMade /\ ExposedPaths(doc, Domain) # {}
       => selected.found /\ pc # "Add"
    /\ exposedEarlier
       => /\ ~Called("api.Add")
          /\ ~Called("engine.StoreConfiguration")
          /\ Cardinality(ExposedPaths(stored, Domain)) = 1

\* both probes of selectDirective returned an error
BothProbesFailed ==
    /\ Len(selected.errs) = 2
    /\ selected.errs[1] # "nil"
    /\ selected.errs[2] # "nil"

\* C10: whenever both probes return an error, NotFound or ParseError alike,
\* selectDirective returns no directive and reports nothing, and exposeApi
\* goes on to Add the block apiServer builds as the last child of http and,
\* Add having succeeded, to StoreConfiguration.
C10_ErrorsTreatedAlike ==
    (Called("selectDirective") /\ BothProbesFailed)
    => /\ ~selected.found
       /\ selected.errs[1] \in {"NotFound", "ParseError"}
       /\ selected.errs[2] \in {"NotFound", "ParseError"}
       /\ failure # "selectDirective"
       /\ pc = "Add" \/ Called("api.Add")
       /\ pc = "Add" => failure = "none"
       /\ Called("api.Add") /\ failure # "api.Add"
          => /\ pc = "StoreConfiguration" \/ Called("engine.StoreConfiguration")
             /\ \E i \in ChildrenNamed(doc, "http") :
                    doc.body[i].body[Len(doc.body[i].body)] = built

\* both probes failed to parse the selector, and the block was added and
\* stored all the same
C10_Witness ==
    /\ selected.errs = <<"ParseError", "ParseError">>
    /\ Called("engine.StoreConfiguration")
    /\ pc = "NewManager"
    /\ \E i \in ChildrenNamed(stored, "http") :
            stored.body[i].body[Len(stored.body[i].body)] = built

====
